---- MODULE Spec2Model ----
(***************************************************************************)
(* Model of the IoT sensor simulation backend: ModeloAnomalias             *)
(* (core/modelo.py), SensorIoT (core/sensor.py), GestorSensores            *)
(* (core/gestor.py) and the query endpoints of api.py.                     *)
(*                                                                         *)
(* Measurements are floats rounded to two decimals in the source; here     *)
(* they are integers counting hundredths (82.00 is 8200).  None is the     *)
(* empty sequence <<>> and a present value x is <<x>>.                     *)
(*                                                                         *)
(* Each production loop (threading.Thread running _loop_sensor) is a       *)
(* record of `threads`, with its position `pc` and its locals.  The code   *)
(* takes no lock, so every access of a loop to a shared attribute is a     *)
(* step of its own.  Start, stop and the queries are made by one calling   *)
(* context (`caller`): the main thread of main.py, the event loop of       *)
(* api.py.                                                                 *)
(***************************************************************************)
EXTENDS Integers, Sequences, FiniteSets, TLC

VARIABLES
    modelo_cargado,  \* ModeloAnomalias.modelo_cargado
    orden,           \* keys of GestorSensores.sensores, in insertion order
    sensores,        \* GestorSensores.sensores: sensor_id -> SensorIoT attributes
    threads,         \* every threading.Thread created by iniciar, in creation order
    caller,          \* the calling context: its position and locals
    ret,             \* the call that returned in the last step, and its value
    ticks,           \* readings generated so far (the datetime.now() source)
    llamada,         \* the last direct call of verificar_estado_completo: arguments, result
    producidas,      \* history: per sensor, the readings appended to data_buffer, in order
    al_detener       \* history: per sensor, Len(producidas) when detener last cleared
                     \* the flag, None once iniciar has set it again

vars == <<modelo_cargado, orden, sensores, threads, caller, ret, ticks, llamada,
          producidas, al_detener>>

(***************************** bounds **************************************)
MaxTicks == 3
MaxThreads == 2
MaxBuffer == 2
MaxDuracion == 2

(***************************** constants ***********************************)
\* round(x, 2): two decimals, so one unit of the model is 1/100
Escala == 100

None == <<>>
Some(x) == <<x>>
IsNone(o) == o = <<>>
Val(o) == o[1]

SensorIds == {"SENSOR_01"}
\* the ids of a fleet of two sensors, and an id that is never registered
Flota == {"SENSOR_01", "SENSOR_02"}
Desconocido == "SENSOR_99"
BufferSizes == 1..MaxBuffer

\* what a tick of a production loop draws: the measurements np.random.normal
\* returns, the answer of the model to them, and the step np.random.normal
\* returns for the drift accumulators, large enough to carry an accumulator
\* across its limit from anywhere inside it
Sorteos ==
    { [temp |-> 7000, volt |-> 22000, efic |-> 8200, pred |-> "normal",
       deriva |-> 16 * Escala],
      [temp |-> 7000, volt |-> 20900, efic |-> 7990, pred |-> "anomalia",
       deriva |-> -16 * Escala] }

\* the arguments of a direct call of verificar_estado_completo
TempVals == {7500, 8000, 8010}
VoltVals == {20500, 20990, 21000}
EficVals == {0, 8799, 8800, 9000}
\* what scaler.transform / modelo.predict may do
Predicciones == {"normal", "anomalia", "error"}
\* the branches of _generar_lectura_sensor
Ramas == {"fallo_voltaje", "sobrecalentamiento", "caida_eficiencia", "normal"}

Max(a, b) == IF a >= b THEN a ELSE b
Min(a, b) == IF a <= b THEN a ELSE b
BoolToInt(b) == IF b THEN 1 ELSE 0
Last(s) == s[Len(s)]

(************************ core/modelo.py ***********************************)
\* faulty variant of AlertaModelo: modelo_cargado is not tested
AlertaModeloSinCarga(cargado, pred) ==
    IF pred = "anomalia" THEN 1 ELSE 0

\* modelo.py 27-35: int(pred[0] == -1) when the model is loaded and the
\* transform and the prediction raise nothing, else 0
AlertaModelo(cargado, pred) ==
    IF cargado /\ pred = "anomalia" THEN 1 ELSE 0

\* faulty variant of AlertaVoltaje: the comparison is not strict
AlertaVoltajeNoEstricto(volt) == BoolToInt(volt <= 210 * Escala)

AlertaVoltaje(volt) == BoolToInt(volt < 210 * Escala)

AlertaTemp(temp) == BoolToInt(temp > 80 * Escala)

AlertaEficiencia(efic, efic_ant) ==
    IF ~IsNone(efic_ant) THEN BoolToInt((efic - Val(efic_ant)) < -2 * Escala) ELSE 0

\* faulty variant of Fuentes: the list is left empty when no signal is active
FuentesSinNormal(am, av, at, ae) ==
    LET f1 == IF am # 0 THEN <<"Modelo_ML">> ELSE <<>>
        f2 == IF av # 0 THEN Append(f1, "Bajo_Voltaje") ELSE f1
        f3 == IF at # 0 THEN Append(f2, "Alta_Temperatura") ELSE f2
    IN  IF ae # 0 THEN Append(f3, "Caida_Eficiencia") ELSE f3

\* faulty variant of Fuentes: the temperature tag is appended before the
\* voltage tag
FuentesTemperaturaPrimero(am, av, at, ae) ==
    LET f1 == IF am # 0 THEN <<"Modelo_ML">> ELSE <<>>
        f2 == IF at # 0 THEN Append(f1, "Alta_Temperatura") ELSE f1
        f3 == IF av # 0 THEN Append(f2, "Bajo_Voltaje") ELSE f2
        f4 == IF ae # 0 THEN Append(f3, "Caida_Eficiencia") ELSE f3
    IN  IF f4 = <<>> THEN <<"Normal">> ELSE f4

\* modelo.py 41-46: the tags of the active signals, or "Normal"
Fuentes(am, av, at, ae) ==
    LET f1 == IF am # 0 THEN <<"Modelo_ML">> ELSE <<>>
        f2 == IF av # 0 THEN Append(f1, "Bajo_Voltaje") ELSE f1
        f3 == IF at # 0 THEN Append(f2, "Alta_Temperatura") ELSE f2
        f4 == IF ae # 0 THEN Append(f3, "Caida_Eficiencia") ELSE f3
    IN  IF f4 = <<>> THEN <<"Normal">> ELSE f4

\* faulty variant of verificar_estado_completo: delta_efic tests the truth value
\* of efic_ant, so that a previous efficiency of 0 counts as absent
verificar_estado_completoSentinela(cargado, pred, temp, volt, efic, efic_ant) ==
    LET alerta_modelo == AlertaModelo(cargado, pred)
        alerta_voltaje == AlertaVoltaje(volt)
        alerta_temp == AlertaTemp(temp)
        alerta_eficiencia == AlertaEficiencia(efic, efic_ant)
    IN  [ alerta_total |-> (alerta_modelo # 0 \/ alerta_voltaje # 0
                             \/ alerta_temp # 0 \/ alerta_eficiencia # 0),
          fuente_alerta |-> Fuentes(alerta_modelo, alerta_voltaje,
                                    alerta_temp, alerta_eficiencia),
          delta_efic |-> IF ~IsNone(efic_ant) /\ Val(efic_ant) # 0
                         THEN Some(efic - Val(efic_ant)) ELSE None,
          alertas_individuales |->
              [ modelo_ml |-> alerta_modelo # 0,
                bajo_voltaje |-> alerta_voltaje # 0,
                alta_temperatura |-> alerta_temp # 0,
                caida_eficiencia |-> alerta_eficiencia # 0 ] ]

verificar_estado_completo(cargado, pred, temp, volt, efic, efic_ant) ==
    LET alerta_modelo == AlertaModelo(cargado, pred)
        alerta_voltaje == AlertaVoltaje(volt)
        alerta_temp == AlertaTemp(temp)
        alerta_eficiencia == AlertaEficiencia(efic, efic_ant)
    IN  [ alerta_total |-> (alerta_modelo # 0 \/ alerta_voltaje # 0
                             \/ alerta_temp # 0 \/ alerta_eficiencia # 0),
          fuente_alerta |-> Fuentes(alerta_modelo, alerta_voltaje,
                                    alerta_temp, alerta_eficiencia),
          delta_efic |-> IF ~IsNone(efic_ant) THEN Some(efic - Val(efic_ant)) ELSE None,
          alertas_individuales |->
              [ modelo_ml |-> alerta_modelo # 0,
                bajo_voltaje |-> alerta_voltaje # 0,
                alta_temperatura |-> alerta_temp # 0,
                caida_eficiencia |-> alerta_eficiencia # 0 ] ]

(************************ core/sensor.py ***********************************)
\* SensorIoT.__init__
NuevoSensor(buffer_size) ==
    [ buffer_size |-> buffer_size,
      data_buffer |-> <<>>,
      data_queue |-> <<>>,
      running |-> FALSE,
      thread |-> 0,
      total_lecturas |-> 0,
      total_anomalias |-> 0,
      ultima_lectura |-> None,
      temp_drift |-> 0,
      volt_drift |-> 0,
      efic_drift |-> 0 ]

\* faulty variant of DequeAppend: a full buffer keeps its oldest entry and
\* drops the one before the newest
DequeAppendDesalojaReciente(buf, maxlen, x) ==
    IF maxlen = 0 THEN buf
    ELSE IF Len(buf) >= maxlen THEN Append(SubSeq(buf, 1, Len(buf) - 1), x)
    ELSE Append(buf, x)

\* deque(maxlen = n).append
DequeAppend(buf, maxlen, x) ==
    IF maxlen = 0 THEN buf
    ELSE IF Len(buf) >= maxlen THEN Append(Tail(buf), x)
    ELSE Append(buf, x)

\* threading.Thread.is_alive of thread t
IsAlive(t) == threads[t].pc # "dead"

Registered == {orden[i] : i \in 1..Len(orden)}

NoCall == [op |-> "none", sid |-> "", val |-> FALSE]
\* the calling context between two calls
Idle == [pc |-> "idle", sid |-> "", cantidad |-> 0, cond |-> FALSE,
         pend |-> <<>>, vista |-> <<>>, estados |-> <<>>, via |-> ""]

SetThread(t, pc, lectura, reg) ==
    threads' = [threads EXCEPT ![t] = [@ EXCEPT !.pc = pc, !.lectura = lectura, !.reg = reg]]

\* while self.running: (the loop is here at its start and after each
\* time.sleep(self.interval))
LoopWhile(t) ==
    /\ threads[t].pc = "while"
    /\ IF sensores[threads[t].sensor].running
       THEN SetThread(t, "tick", None, 0)
       ELSE SetThread(t, "dead", None, 0)
    /\ UNCHANGED <<llamada, modelo_cargado, orden, sensores, caller, ticks, producidas, al_detener>>
    /\ ret' = NoCall

\* SensorIoT._generar_lectura_sensor: the reading of measurement m
generar_lectura_sensor(s, timestamp, m) ==
    [ timestamp |-> timestamp,
      sensor_id |-> s,
      temperatura_c |-> m.temp,
      voltaje_v |-> m.volt,
      eficiencia_pct |-> m.efic ]

\* SensorIoT._procesar_lectura: the reading annotated, against the last entry
\* of the buffer
procesar_lectura(buf, cargado, pred, lectura) ==
    LET efic_anterior == IF buf # <<>> THEN Some(Last(buf).eficiencia_pct) ELSE None
        r == verificar_estado_completo(cargado, pred, lectura.temperatura_c,
                                       lectura.voltaje_v, lectura.eficiencia_pct,
                                       efic_anterior)
    IN  [ timestamp |-> lectura.timestamp,
          sensor_id |-> lectura.sensor_id,
          temperatura_c |-> lectura.temperatura_c,
          voltaje_v |-> lectura.voltaje_v,
          eficiencia_pct |-> lectura.eficiencia_pct,
          alerta_total |-> r.alerta_total,
          fuente_alerta |-> r.fuente_alerta,
          delta_efic |-> r.delta_efic,
          alertas_individuales |-> r.alertas_individuales ]

\* lines 155-158: lectura = self._generar_lectura_sensor() works on the loop's
\* locals, and self._procesar_lectura(lectura) then reads self.data_buffer.
\* The voltage-fault branch of _generar_lectura_sensor leaves `temperatura`
\* unbound: its return statement raises UnboundLocalError, the loop's except
\* clause catches it, sleeps, and the loop is back at its while.
GenerarProcesar(t) ==
    LET s == threads[t].sensor
    IN  /\ threads[t].pc = "tick"
        /\ \E rama \in Ramas :
             IF rama = "fallo_voltaje"
             THEN SetThread(t, "while", None, 0) /\ UNCHANGED ticks
             ELSE /\ ticks < MaxTicks
                  /\ ticks' = ticks + 1
                  /\ \E m \in Sorteos :
                       SetThread(t, "append",
                                 Some(procesar_lectura(sensores[s].data_buffer, modelo_cargado,
                                          m.pred, generar_lectura_sensor(s, ticks + 1, m))), 0)
        /\ UNCHANGED <<llamada, modelo_cargado, orden, sensores, caller, producidas, al_detener>>
        /\ ret' = NoCall

\* self.data_buffer.append(lectura_procesada)
BufferAppend(t) ==
    LET s == threads[t].sensor
        l == Val(threads[t].lectura)
    IN  /\ threads[t].pc = "append"
        /\ sensores' = [sensores EXCEPT ![s].data_buffer =
                            DequeAppend(@, sensores[s].buffer_size, l)]
        /\ producidas' = [producidas EXCEPT ![s] = Append(@, l)]
        /\ SetThread(t, "put", threads[t].lectura, 0)
        /\ UNCHANGED <<llamada, modelo_cargado, orden, caller, ticks, al_detener>>
        /\ ret' = NoCall

\* faulty variant of QueuePut: the queue was built with a maxsize, and put
\* waits while the queue is full
QueuePutAcotada(t) ==
    LET s == threads[t].sensor
    IN  /\ threads[t].pc = "put"
        /\ Len(sensores[s].data_queue) < MaxBuffer
        /\ sensores' = [sensores EXCEPT ![s].data_queue = Append(@, Val(threads[t].lectura))]
        /\ SetThread(t, "lect_load", threads[t].lectura, 0)
        /\ UNCHANGED <<llamada, modelo_cargado, orden, caller, ticks, producidas, al_detener>>
        /\ ret' = NoCall

\* self.data_queue.put(lectura_procesada.copy())
QueuePut(t) ==
    LET s == threads[t].sensor
    IN  /\ threads[t].pc = "put"
        /\ sensores' = [sensores EXCEPT ![s].data_queue = Append(@, Val(threads[t].lectura))]
        /\ SetThread(t, "lect_load", threads[t].lectura, 0)
        /\ UNCHANGED <<llamada, modelo_cargado, orden, caller, ticks, producidas, al_detener>>
    /\ ret' = NoCall

\* self.total_lecturas += 1: the load
LecturasLoad(t) ==
    /\ threads[t].pc = "lect_load"
    /\ SetThread(t, "lect_store", threads[t].lectura, sensores[threads[t].sensor].total_lecturas)
    /\ UNCHANGED <<llamada, modelo_cargado, orden, sensores, caller, ticks, producidas, al_detener>>
    /\ ret' = NoCall

\* self.total_lecturas += 1: the store
LecturasStore(t) ==
    /\ threads[t].pc = "lect_store"
    /\ sensores' = [sensores EXCEPT ![threads[t].sensor].total_lecturas = threads[t].reg + 1]
    /\ SetThread(t, "ultima", threads[t].lectura, 0)
    /\ UNCHANGED <<llamada, modelo_cargado, orden, caller, ticks, producidas, al_detener>>
    /\ ret' = NoCall

\* self.ultima_lectura = lectura_procesada; if lectura_procesada['alerta_total']:
UltimaLectura(t) ==
    /\ threads[t].pc = "ultima"
    /\ sensores' = [sensores EXCEPT ![threads[t].sensor].ultima_lectura = threads[t].lectura]
    /\ IF Val(threads[t].lectura).alerta_total
       THEN SetThread(t, "anom_load", None, 0)
       ELSE SetThread(t, "while", None, 0)
    /\ UNCHANGED <<llamada, modelo_cargado, orden, caller, ticks, producidas, al_detener>>
    /\ ret' = NoCall

\* self.total_anomalias += 1: the load
AnomaliasLoad(t) ==
    /\ threads[t].pc = "anom_load"
    /\ SetThread(t, "anom_store", None, sensores[threads[t].sensor].total_anomalias)
    /\ UNCHANGED <<llamada, modelo_cargado, orden, sensores, caller, ticks, producidas, al_detener>>
    /\ ret' = NoCall

\* self.total_anomalias += 1: the store; then time.sleep(self.interval)
AnomaliasStore(t) ==
    /\ threads[t].pc = "anom_store"
    /\ sensores' = [sensores EXCEPT ![threads[t].sensor].total_anomalias = threads[t].reg + 1]
    /\ SetThread(t, "while", None, 0)
    /\ UNCHANGED <<llamada, modelo_cargado, orden, caller, ticks, producidas, al_detener>>
    /\ ret' = NoCall

\* one step of the production loop t
\* the six statements of _generar_lectura_sensor on the drift accumulators,
\* lines 108-110 (+= of a normal draw) and lines 113-115 (np.clip)
SentenciasDeriva ==
    << [campo |-> "temp_drift", op |-> "suma", lim |-> 0],
       [campo |-> "volt_drift", op |-> "suma", lim |-> 0],
       [campo |-> "efic_drift", op |-> "suma", lim |-> 0],
       [campo |-> "temp_drift", op |-> "clip", lim |-> 3 * Escala],
       [campo |-> "volt_drift", op |-> "clip", lim |-> 8 * Escala],
       [campo |-> "efic_drift", op |-> "clip", lim |-> 4 * Escala] >>

PcDeriva == <<"d1", "d2", "d3", "d4", "d5", "d6">>

\* np.clip(x, -lim, lim)
Clip(x, lim) == Max(-lim, Min(lim, x))

\* _generar_lectura_sensor, lines 86-105: the clock is read, the branch is
\* drawn and the locals assigned; the voltage-fault branch assigns voltaje
\* alone
SintesisRama(t) ==
    /\ threads[t].pc = "tick"
    /\ ticks < MaxTicks
    /\ ticks' = ticks + 1
    /\ \E rama \in Ramas, m \in Sorteos :
         SetThread(t, PcDeriva[1],
                   Some([ timestamp |-> ticks + 1,
                          temperatura |-> IF rama = "fallo_voltaje" THEN None
                                          ELSE Some(m.temp),
                          voltaje |-> Some(m.volt),
                          eficiencia |-> Some(m.efic),
                          pred |-> m.pred,
                          deriva |-> m.deriva ]), 0)
    /\ UNCHANGED <<llamada, modelo_cargado, orden, sensores, caller, producidas, al_detener>>
    /\ ret' = NoCall

\* statement k on the drift accumulators, taken in one step: the accumulator
\* plus the step drawn, or the accumulator clipped to its limits. The
\* interleavings inside one statement, which lose an update or a clip of
\* another loop, are left out: they add outcomes and take none away
Deriva(t) ==
    /\ \E k \in 1..6 :
         LET st == SentenciasDeriva[k]
             s == threads[t].sensor
             v == sensores[s][st.campo]
         IN  /\ threads[t].pc = PcDeriva[k]
             /\ sensores' = [sensores EXCEPT ![s][st.campo] =
                                 IF st.op = "suma" THEN v + Val(threads[t].lectura).deriva
                                 ELSE Clip(v, st.lim)]
             /\ SetThread(t, IF k < 6 THEN PcDeriva[k + 1] ELSE "retorno", threads[t].lectura, 0)
    /\ UNCHANGED <<llamada, modelo_cargado, orden, caller, ticks, producidas, al_detener>>
    /\ ret' = NoCall

\* lines 117-123 and 158: the return statement builds the reading from the
\* locals, and raises UnboundLocalError when `temperatura` was never assigned,
\* which takes the loop to its except clause. Otherwise _procesar_lectura
\* annotates the reading against the last entry of the buffer
SintesisRetorno(t) ==
    LET s == threads[t].sensor
        loc == Val(threads[t].lectura)
    IN  /\ threads[t].pc = "retorno"
        /\ IF IsNone(loc.temperatura) \/ IsNone(loc.voltaje) \/ IsNone(loc.eficiencia)
           THEN SetThread(t, "except", None, 0)
           ELSE SetThread(t, "append",
                          Some(procesar_lectura(sensores[s].data_buffer, modelo_cargado,
                                   loc.pred,
                                   generar_lectura_sensor(s, loc.timestamp,
                                       [temp |-> Val(loc.temperatura),
                                        volt |-> Val(loc.voltaje),
                                        efic |-> Val(loc.eficiencia)]))), 0)
        /\ UNCHANGED <<llamada, modelo_cargado, orden, sensores, caller, ticks, producidas, al_detener>>
        /\ ret' = NoCall

\* faulty variant of Except: the error ends the loop
ExceptTermina(t) ==
    /\ threads[t].pc = "except"
    /\ SetThread(t, "dead", None, 0)
    /\ UNCHANGED <<llamada, modelo_cargado, orden, sensores, caller, ticks, producidas, al_detener>>
    /\ ret' = NoCall

\* lines 183-185: the except clause logs the error and sleeps one interval;
\* the loop is back at its while
Except(t) ==
    /\ threads[t].pc = "except"
    /\ SetThread(t, "while", None, 0)
    /\ UNCHANGED <<llamada, modelo_cargado, orden, sensores, caller, ticks, producidas, al_detener>>
    /\ ret' = NoCall

\* the loop with _generar_lectura_sensor followed statement by statement
loop_sensor_sintesis(t) ==
    \/ LoopWhile(t)
    \/ SintesisRama(t)
    \/ Deriva(t)
    \/ SintesisRetorno(t)
    \/ Except(t)
    \/ BufferAppend(t)
    \/ QueuePut(t)
    \/ LecturasLoad(t)
    \/ LecturasStore(t)
    \/ UltimaLectura(t)
    \/ AnomaliasLoad(t)
    \/ AnomaliasStore(t)

\* the loop with _generar_lectura_sensor and _procesar_lectura in one step,
\* the drift accumulators left aside
loop_sensor(t) ==
    \/ LoopWhile(t)
    \/ GenerarProcesar(t)
    \/ BufferAppend(t)
    \/ QueuePut(t)
    \/ LecturasLoad(t)
    \/ LecturasStore(t)
    \/ UltimaLectura(t)
    \/ AnomaliasLoad(t)
    \/ AnomaliasStore(t)


(************************ core/gestor.py ***********************************)
\* the operations that loop over self.sensores calling iniciar_sensor or
\* detener_sensor
Todos == {"iniciar_todos", "detener_todos"}

\* call op(sid) returns val. Called by the calling context, `ret` holds the
\* value for the state the return leads to, and every other step resets it.
\* Called from the for loop of iniciar_todos or detener_todos, the value is
\* dropped (caller.estados keeps it for the record) and the loop goes on to
\* the next sensor, or ends, and the operation returns
Return(op, sid, val) ==
    IF caller.via \in Todos
    THEN LET hechos == Append(caller.estados, val)
         IN  IF Tail(caller.pend) = <<>>
             THEN /\ caller' = Idle
                  /\ ret' = [op |-> caller.via, sid |-> "", val |-> hechos]
             ELSE /\ caller' = [caller EXCEPT !.pc = "todos", !.sid = "",
                                              !.pend = Tail(caller.pend),
                                              !.estados = hechos]
                  /\ ret' = NoCall
    ELSE /\ caller' = Idle
         /\ ret' = [op |-> op, sid |-> sid, val |-> val]

\* faulty variant of agregar_sensor: a sensor already registered is replaced
\* by a new one
agregar_sensorReemplaza(s, buffer_size) ==
    /\ caller.pc = "idle"
    /\ IF s \notin Registered
       THEN /\ sensores' = sensores @@ (s :> NuevoSensor(buffer_size))
            /\ orden' = Append(orden, s)
            /\ Return("agregar_sensor", s, TRUE)
       ELSE /\ sensores' = [sensores EXCEPT ![s] = NuevoSensor(buffer_size)]
            /\ orden' = orden
            /\ Return("agregar_sensor", s, FALSE)
    /\ UNCHANGED <<llamada, modelo_cargado, threads, ticks, producidas, al_detener>>

\* GestorSensores.agregar_sensor(sensor_id, interval, buffer_size)
agregar_sensor(s, buffer_size) ==
    /\ caller.pc = "idle"
    /\ IF s \notin Registered
       THEN /\ sensores' = sensores @@ (s :> NuevoSensor(buffer_size))
            /\ orden' = Append(orden, s)
            /\ Return("agregar_sensor", s, TRUE)
       ELSE /\ UNCHANGED <<sensores, orden>>
            /\ Return("agregar_sensor", s, FALSE)
    /\ UNCHANGED <<llamada, modelo_cargado, threads, ticks, producidas, al_detener>>

\* faulty variant of iniciar: the running flag is not tested
iniciarSinGuarda(s) ==
    /\ Len(threads) < MaxThreads
    /\ threads' = Append(threads, [sensor |-> s, pc |-> "while",
                                   lectura |-> None, reg |-> 0])
    /\ sensores' = [sensores EXCEPT ![s].running = TRUE,
                                    ![s].thread = Len(threads) + 1]
    /\ al_detener' = [al_detener EXCEPT ![s] = None]
    /\ Return("iniciar", s, TRUE)

\* SensorIoT.iniciar, reached through GestorSensores.iniciar_sensor(sensor_id)
iniciar(s) ==
    IF ~sensores[s].running
    THEN /\ Len(threads) < MaxThreads
         /\ threads' = Append(threads, [sensor |-> s, pc |-> "while",
                                        lectura |-> None, reg |-> 0])
         /\ sensores' = [sensores EXCEPT ![s].running = TRUE,
                                         ![s].thread = Len(threads) + 1]
         /\ al_detener' = [al_detener EXCEPT ![s] = None]
         /\ Return("iniciar", s, TRUE)
    ELSE /\ UNCHANGED <<sensores, threads, al_detener>>
         /\ Return("iniciar", s, FALSE)

iniciar_sensor(s) ==
    /\ caller.pc = "idle"
    /\ IF s \in Registered
       THEN iniciar(s)
       ELSE /\ UNCHANGED <<sensores, threads, al_detener>>
            /\ Return("iniciar", s, FALSE)
    /\ UNCHANGED <<llamada, modelo_cargado, orden, ticks, producidas>>

\* faulty variant of detener: the running flag is not tested
detenerSinGuarda(s) ==
    /\ sensores' = [sensores EXCEPT ![s].running = FALSE]
    /\ al_detener' = [al_detener EXCEPT ![s] = Some(Len(producidas[s]))]
    /\ IF sensores[s].thread # 0 /\ IsAlive(sensores[s].thread)
       THEN /\ caller' = [caller EXCEPT !.pc = "join", !.sid = s]
            /\ ret' = NoCall
       ELSE Return("detener", s, TRUE)

\* SensorIoT.detener up to self.thread.join(timeout=2), reached through
\* GestorSensores.detener_sensor(sensor_id)
detener(s) ==
    IF sensores[s].running
    THEN /\ sensores' = [sensores EXCEPT ![s].running = FALSE]
         /\ al_detener' = [al_detener EXCEPT ![s] = Some(Len(producidas[s]))]
         /\ IF sensores[s].thread # 0 /\ IsAlive(sensores[s].thread)
            THEN /\ caller' = [caller EXCEPT !.pc = "join", !.sid = s]
                 /\ ret' = NoCall
            ELSE Return("detener", s, TRUE)
    ELSE /\ UNCHANGED <<sensores, al_detener>>
         /\ Return("detener", s, FALSE)

\* faulty variant of detener_sensor: an id that is not registered is answered
\* with True
detener_sensorSinRegistro(s) ==
    /\ caller.pc = "idle"
    /\ IF s \in Registered
       THEN detener(s)
       ELSE /\ UNCHANGED <<sensores, al_detener>>
            /\ Return("detener", s, TRUE)
    /\ UNCHANGED <<llamada, modelo_cargado, orden, threads, ticks, producidas>>

\* GestorSensores.detener_sensor(sensor_id)
detener_sensor(s) ==
    /\ caller.pc = "idle"
    /\ IF s \in Registered
       THEN detener(s)
       ELSE /\ UNCHANGED <<sensores, al_detener>>
            /\ Return("detener", s, FALSE)
    /\ UNCHANGED <<llamada, modelo_cargado, orden, threads, ticks, producidas>>

\* join(timeout=2) returns because the loop has exited; detener returns True
JoinExit ==
    /\ caller.pc = "join"
    /\ ~IsAlive(sensores[caller.sid].thread)
    /\ Return("detener", caller.sid, TRUE)
    /\ UNCHANGED <<llamada, modelo_cargado, orden, sensores, threads, ticks, producidas, al_detener>>

\* faulty variant of JoinTimeout: detener returns False when the join timed out
JoinTimeoutFalse ==
    /\ caller.pc = "join"
    /\ IsAlive(sensores[caller.sid].thread)
    /\ Return("detener", caller.sid, FALSE)
    /\ UNCHANGED <<llamada, modelo_cargado, orden, sensores, threads, ticks, producidas, al_detener>>

\* join(timeout=2) returns because two seconds have passed with the loop
\* still alive (in its sleep, or in a slow tick); detener returns True
JoinTimeout ==
    /\ caller.pc = "join"
    /\ IsAlive(sensores[caller.sid].thread)
    /\ Return("detener", caller.sid, TRUE)
    /\ UNCHANGED <<llamada, modelo_cargado, orden, sensores, threads, ticks, producidas, al_detener>>


\* faulty variant of TodosPaso: the loop ends at the first call that returns
\* False
TodosPasoHastaFallo ==
    /\ caller.pc = "todos"
    /\ LET s == Head(caller.pend)
           cambia == IF caller.via = "iniciar_todos" THEN ~sensores[s].running
                     ELSE sensores[s].running
       IN  IF cambia
           THEN IF caller.via = "iniciar_todos" THEN iniciar(s)
                ELSE detener(s) /\ UNCHANGED threads
           ELSE /\ caller' = Idle
                /\ ret' = [op |-> caller.via, sid |-> "",
                           val |-> Append(caller.estados, FALSE)]
                /\ UNCHANGED <<sensores, threads, al_detener>>
    /\ UNCHANGED <<llamada, modelo_cargado, orden, ticks, producidas>>

\* GestorSensores.iniciar_todos / detener_todos is called: the for loop over
\* self.sensores starts (and ends at once on an empty registry)
LlamarTodos(via) ==
    /\ caller.pc = "idle"
    /\ IF orden = <<>>
       THEN /\ caller' = Idle
            /\ ret' = [op |-> via, sid |-> "", val |-> <<>>]
       ELSE /\ caller' = [Idle EXCEPT !.pc = "todos", !.via = via, !.pend = orden]
            /\ ret' = NoCall
    /\ UNCHANGED <<llamada, modelo_cargado, orden, sensores, threads, ticks, producidas, al_detener>>

iniciar_todos == LlamarTodos("iniciar_todos")

detener_todos == LlamarTodos("detener_todos")

\* one round of the for loop: self.iniciar_sensor(sensor_id), or
\* self.detener_sensor(sensor_id) up to its join
TodosPaso ==
    /\ caller.pc = "todos"
    /\ IF caller.via = "iniciar_todos"
       THEN iniciar(Head(caller.pend))
       ELSE detener(Head(caller.pend)) /\ UNCHANGED threads
    /\ UNCHANGED <<llamada, modelo_cargado, orden, ticks, producidas>>

\* round(num / den * 100, 2) in hundredths of a percent; Python rounds a tie
\* to the even neighbour
TasaPct(num, den) ==
    LET n == num * 100 * Escala
        q == n \div den
        r == n % den
    IN  IF 2 * r > den \/ (2 * r = den /\ q % 2 = 1) THEN q + 1 ELSE q

VistaVacia ==
    [ sensor_id |-> "", activo |-> FALSE, total_lecturas |-> 0, total_anomalias |-> 0,
      tasa_anomalias_pct |-> 0, buffer_size |-> 0, ultima_lectura |-> None,
      tiene_alerta_activa |-> FALSE ]

\* sum(e[campo] for e in estados.values())
RECURSIVE Suma(_, _)
Suma(estados, campo) ==
    IF estados = <<>> THEN 0
    ELSE estados[1][campo] + Suma(Tail(estados), campo)

\* the quotient a / b as the fraction num/den; a division by zero raises
\* ZeroDivisionError
Dividir(a, b) ==
    IF b = 0 THEN [error |-> TRUE, num |-> 0, den |-> 1]
    ELSE [error |-> FALSE, num |-> a, den |-> b]

\* the literal 0 of the else branches
Cero == [error |-> FALSE, num |-> 0, den |-> 1]

\* faulty variant of TasaGlobalSistema: the total is not tested
TasaGlobalSinGuarda(total_anomalias, total_lecturas) ==
    Dividir(total_anomalias * 100, total_lecturas)

\* api.py 47: (total_anomalias/total_lecturas)*100 if total_lecturas > 0 else 0
TasaGlobalSistema(total_anomalias, total_lecturas) ==
    IF total_lecturas > 0 THEN Dividir(total_anomalias * 100, total_lecturas) ELSE Cero

\* api.py 68: sum(total_anomalias)/sum(total_lecturas) if sum(total_lecturas) > 0
\* else 0
TasaGlobalWebsocket(total_anomalias, total_lecturas) ==
    IF total_lecturas > 0 THEN Dividir(total_anomalias, total_lecturas) ELSE Cero

\* what the operation `via` makes of the views of obtener_estado_general: the
\* views themselves, or the body of estado_sistema (api.py 40-48), or the
\* SistemaDTO of websocket_endpoint (api.py 64-69)
Respuesta(via, estados) ==
    IF via = "obtener_estado_general" THEN estados
    ELSE LET total_lecturas == Suma(estados, "total_lecturas")
             total_anomalias == Suma(estados, "total_anomalias")
         IN  [ sensores |-> estados,
               total_lecturas |-> total_lecturas,
               total_anomalias |-> total_anomalias,
               tasa_global_anomalias |->
                   IF via = "estado_sistema"
                   THEN TasaGlobalSistema(total_anomalias, total_lecturas)
                   ELSE TasaGlobalWebsocket(total_anomalias, total_lecturas) ]

\* GestorSensores.obtener_estado_general is called by `via`: estados = {}, and
\* the loop over self.sensores.items() starts
EstadoGeneral(via) ==
    /\ caller.pc = "idle"
    /\ IF orden = <<>>
       THEN Return(via, "", Respuesta(via, <<>>))
       ELSE /\ caller' = [Idle EXCEPT !.pc = "e208a", !.sid = Head(orden),
                                      !.pend = Tail(orden), !.vista = VistaVacia,
                                      !.via = via]
            /\ ret' = NoCall
    /\ UNCHANGED <<llamada, modelo_cargado, orden, sensores, threads, ticks, producidas, al_detener>>

\* GestorSensores.obtener_estado_general called on its own
obtener_estado_general == EstadoGeneral("obtener_estado_general")

\* GET /api/sistema
estado_sistema == EstadoGeneral("estado_sistema")

\* one round of the loop of the /ws endpoint, up to send_json
websocket_endpoint == EstadoGeneral("websocket_endpoint")

\* SensorIoT.obtener_estado, line 208: self.total_anomalias is loaded
Estado208a ==
    /\ caller.pc = "e208a"
    /\ caller' = [caller EXCEPT !.pc = "e208l",
                     !.vista.tasa_anomalias_pct = sensores[caller.sid].total_anomalias]
    /\ UNCHANGED <<llamada, modelo_cargado, orden, sensores, threads, ticks, producidas, al_detener>>
    /\ ret' = NoCall

\* line 208: self.total_lecturas is loaded and tasa_anomalias computed
Estado208l ==
    /\ caller.pc = "e208l"
    /\ caller' = [caller EXCEPT !.pc = "e213",
                     !.vista.tasa_anomalias_pct =
                         TasaPct(@, Max(1, sensores[caller.sid].total_lecturas))]
    /\ UNCHANGED <<llamada, modelo_cargado, orden, sensores, threads, ticks, producidas, al_detener>>
    /\ ret' = NoCall

\* lines 211-213: sensor_id, self.running (written by the calling context
\* alone) and self.total_lecturas are loaded
Estado213 ==
    /\ caller.pc = "e213"
    /\ caller' = [caller EXCEPT !.pc = "e214",
                     !.vista.sensor_id = caller.sid,
                     !.vista.activo = sensores[caller.sid].running,
                     !.vista.total_lecturas = sensores[caller.sid].total_lecturas]
    /\ UNCHANGED <<llamada, modelo_cargado, orden, sensores, threads, ticks, producidas, al_detener>>
    /\ ret' = NoCall

\* line 214: self.total_anomalias is loaded
Estado214 ==
    /\ caller.pc = "e214"
    /\ caller' = [caller EXCEPT !.pc = "e217",
                     !.vista.total_anomalias = sensores[caller.sid].total_anomalias]
    /\ UNCHANGED <<llamada, modelo_cargado, orden, sensores, threads, ticks, producidas, al_detener>>
    /\ ret' = NoCall

\* faulty variant of Estado217: the snapshot empties the queue of the sensor
Estado217Drena ==
    /\ caller.pc = "e217"
    /\ caller' = [caller EXCEPT !.pc = "e218",
                     !.vista.buffer_size = Len(sensores[caller.sid].data_buffer)]
    /\ sensores' = [sensores EXCEPT ![caller.sid].data_queue = <<>>]
    /\ UNCHANGED <<llamada, modelo_cargado, orden, threads, ticks, producidas, al_detener>>
    /\ ret' = NoCall

\* line 217: len(self.data_buffer)
Estado217 ==
    /\ caller.pc = "e217"
    /\ caller' = [caller EXCEPT !.pc = "e218",
                     !.vista.buffer_size = Len(sensores[caller.sid].data_buffer)]
    /\ UNCHANGED <<llamada, modelo_cargado, orden, sensores, threads, ticks, producidas, al_detener>>
    /\ ret' = NoCall

\* line 218: self.ultima_lectura if self.ultima_lectura else None
Estado218 ==
    /\ caller.pc = "e218"
    /\ caller' = [caller EXCEPT !.pc = "e219",
                     !.vista.ultima_lectura = sensores[caller.sid].ultima_lectura]
    /\ UNCHANGED <<llamada, modelo_cargado, orden, sensores, threads, ticks, producidas, al_detener>>
    /\ ret' = NoCall

\* line 219, and obtener_estado returns: estados[sensor_id] = ...; the loop of
\* obtener_estado_general goes on to the next sensor, or returns estados to
\* the operation that called it, which returns in turn
Estado219 ==
    /\ caller.pc = "e219"
    /\ LET u == sensores[caller.sid].ultima_lectura
           v == [caller.vista EXCEPT !.tiene_alerta_activa =
                     IF ~IsNone(u) THEN Val(u).alerta_total ELSE FALSE]
           estados == Append(caller.estados, v)
       IN  IF caller.pend = <<>>
           THEN Return(caller.via, "", Respuesta(caller.via, estados))
           ELSE /\ caller' = [caller EXCEPT !.pc = "e208a", !.sid = Head(caller.pend),
                                            !.pend = Tail(caller.pend),
                                            !.vista = VistaVacia, !.estados = estados]
                /\ ret' = NoCall
    /\ UNCHANGED <<llamada, modelo_cargado, orden, sensores, threads, ticks, producidas, al_detener>>

(****************************** api.py *************************************)
\* Python's list[-n:]
SliceLast(list, n) ==
    IF n > 0 THEN SubSeq(list, Max(1, Len(list) - n + 1), Len(list))
    ELSE SubSeq(list, (-n) + 1, Len(list))

Cantidades == 0..(MaxBuffer + 1)

\* obtener_lecturas(sensor_id, limit) up to the condition of
\* SensorIoT.obtener_ultimas_lecturas: `self.data_buffer` (cantidad == 1) or
\* `len(self.data_buffer) >= cantidad`
obtener_lecturas(s, limit) ==
    /\ caller.pc = "idle"
    /\ IF s \in Registered
       THEN /\ caller' = [Idle EXCEPT !.pc = "lecturas", !.sid = s, !.cantidad = limit,
                              !.cond = IF limit = 1
                                       THEN sensores[s].data_buffer # <<>>
                                       ELSE Len(sensores[s].data_buffer) >= limit]
            /\ ret' = NoCall
       ELSE Return("obtener_lecturas", s, [tipo |-> "list", cantidad |-> limit, items |-> <<>>])
    /\ UNCHANGED <<llamada, modelo_cargado, orden, sensores, threads, ticks, producidas, al_detener>>

\* SensorIoT.obtener_ultimas_lecturas: the branch taken copies the buffer
\* (list(self.data_buffer)) and returns
obtener_ultimas_lecturas(buf, cantidad, cond) ==
    IF cantidad = 1
    THEN IF cond THEN [tipo |-> "dict", cantidad |-> cantidad, items |-> <<Last(buf)>>]
                 ELSE [tipo |-> "None", cantidad |-> cantidad, items |-> <<>>]
    ELSE IF cond THEN [tipo |-> "list", cantidad |-> cantidad, items |-> SliceLast(buf, cantidad)]
                 ELSE [tipo |-> "list", cantidad |-> cantidad, items |-> buf]

LecturasReturn ==
    /\ caller.pc = "lecturas"
    /\ Return("obtener_lecturas", caller.sid,
              obtener_ultimas_lecturas(sensores[caller.sid].data_buffer,
                                       caller.cantidad, caller.cond))
    /\ UNCHANGED <<llamada, modelo_cargado, orden, sensores, threads, ticks, producidas, al_detener>>

\* the keys obtener_datos_historicos reads of a reading by subscription,
\* lines 236-248; a key the reading lacks raises KeyError
ClavesLeidas ==
    {"timestamp", "sensor_id", "temperatura_c", "voltaje_v", "eficiencia_pct",
     "alerta_total", "fuentes_alerta", "alertas_individuales"}

\* ','.join(fuentes)
RECURSIVE Join(_)
Join(fuentes) ==
    IF fuentes = <<>> THEN ""
    ELSE IF Len(fuentes) = 1 THEN fuentes[1]
    ELSE fuentes[1] \o "," \o Join(Tail(fuentes))

\* lectura.get(clave): None when the reading lacks the key
Get(lectura, clave) ==
    IF clave \in DOMAIN lectura THEN lectura[clave] ELSE None

\* lines 235-250: the row made of one reading, when every key read is there
Fila(lectura) ==
    [ timestamp |-> lectura["timestamp"],
      sensor_id |-> lectura["sensor_id"],
      temperatura_c |-> lectura["temperatura_c"],
      voltaje_v |-> lectura["voltaje_v"],
      eficiencia_pct |-> lectura["eficiencia_pct"],
      alerta_total |-> lectura["alerta_total"],
      fuentes_alerta |-> Join(lectura["fuentes_alerta"]),
      delta_eficiencia |-> Get(lectura, "delta_efic"),
      alerta_modelo_ml |-> lectura["alertas_individuales"].modelo_ml,
      alerta_bajo_voltaje |-> lectura["alertas_individuales"].bajo_voltaje,
      alerta_alta_temperatura |-> lectura["alertas_individuales"].alta_temperatura,
      alerta_caida_eficiencia |-> lectura["alertas_individuales"].caida_eficiencia ]

\* what obtener_datos_historicos ends with: a DataFrame of rows, or the
\* exception that leaves it
DataFrame(filas) == [error |-> "", filas |-> filas]
Excepcion(nombre) == [error |-> nombre, filas |-> <<>>]

\* SensorIoT.obtener_datos_historicos, lines 230-233: an empty buffer gives an
\* empty DataFrame; otherwise datos = []
obtener_datos_historicos(s) ==
    /\ caller.pc = "idle"
    /\ s \in Registered
    /\ IF sensores[s].data_buffer = <<>>
       THEN Return("obtener_datos_historicos", s, DataFrame(<<>>))
       ELSE /\ caller' = [Idle EXCEPT !.pc = "h_iter", !.sid = s,
                                      !.via = "obtener_datos_historicos"]
            /\ ret' = NoCall
    /\ UNCHANGED <<llamada, modelo_cargado, orden, sensores, threads, ticks, producidas, al_detener>>

\* line 234: for lectura in self.data_buffer creates the iterator of the
\* deque, which keeps the deque's state; every append changes that state, and
\* caller.cantidad holds the number of appends so far
HistoricosIter ==
    /\ caller.pc = "h_iter"
    /\ caller' = [caller EXCEPT !.pc = "h_fila", !.cantidad = Len(producidas[caller.sid])]
    /\ ret' = NoCall
    /\ UNCHANGED <<llamada, modelo_cargado, orden, sensores, threads, ticks, producidas, al_detener>>

\* lines 234-254: the iterator's next raises RuntimeError (deque mutated
\* during iteration) when the loop has appended since the iterator was made;
\* at the end of the buffer the DataFrame is returned; otherwise the row of
\* the next reading is built, with KeyError for a key the reading lacks, and
\* appended to datos (caller.estados)
HistoricosFila ==
    LET buf == sensores[caller.sid].data_buffer
        i == Len(caller.estados) + 1
    IN  /\ caller.pc = "h_fila"
        /\ IF Len(producidas[caller.sid]) # caller.cantidad
           THEN Return(caller.via, caller.sid, Excepcion("RuntimeError"))
           ELSE IF i > Len(buf)
           THEN Return(caller.via, caller.sid, DataFrame(caller.estados))
           ELSE IF ~(ClavesLeidas \subseteq DOMAIN buf[i])
           THEN Return(caller.via, caller.sid, Excepcion("KeyError"))
           ELSE /\ caller' = [caller EXCEPT !.estados = Append(@, Fila(buf[i]))]
                /\ ret' = NoCall
        /\ UNCHANGED <<llamada, modelo_cargado, orden, sensores, threads, ticks, producidas, al_detener>>

\* the durations mostrar_alertas_tiempo_real is called with, in poll intervals
\* of 0.1 s
Duraciones == 0..MaxDuracion

\* the time one round of the watch takes, in poll intervals: the sleep of
\* 0.1 s, and the time of the round's own work when it is not negligible
Rondas == {1, 2}

\* what the watch has shown and taken so far, returned at its end
Informe == [drenadas |-> caller.vista, alertas |-> caller.estados]

\* the for loop of mostrar_alertas_tiempo_real goes on to the sensors in
\* `pend`, or ends
AlertasSiguiente(pend, vista, estados) ==
    caller' = IF pend = <<>>
              THEN [caller EXCEPT !.pc = "w_sleep", !.sid = "", !.pend = <<>>,
                                  !.vista = vista, !.estados = estados]
              ELSE [caller EXCEPT !.pc = "w_empty", !.sid = Head(pend),
                                  !.pend = Tail(pend),
                                  !.vista = vista, !.estados = estados]

\* GestorSensores.mostrar_alertas_tiempo_real(duracion_segundos), lines 65-67:
\* inicio = time.time()
mostrar_alertas_tiempo_real(duracion) ==
    /\ caller.pc = "idle"
    /\ caller' = [Idle EXCEPT !.pc = "w_while", !.cantidad = duracion,
                              !.via = "mostrar_alertas_tiempo_real"]
    /\ ret' = NoCall
    /\ UNCHANGED <<llamada, modelo_cargado, orden, sensores, threads, ticks, producidas, al_detener>>

\* lines 69-73: while time.time() - inicio < duracion_segundos, and the for
\* loop over self.sensores.items() starts; caller.cantidad is what is left of
\* the duration
AlertasWhile ==
    /\ caller.pc = "w_while"
    /\ IF caller.cantidad > 0
       THEN AlertasSiguiente(orden, caller.vista, caller.estados) /\ ret' = NoCall
       ELSE Return(caller.via, "", Informe)
    /\ UNCHANGED <<llamada, modelo_cargado, orden, sensores, threads, ticks, producidas, al_detener>>

\* line 74: if not sensor.data_queue.empty()
AlertasEmpty ==
    /\ caller.pc = "w_empty"
    /\ IF sensores[caller.sid].data_queue # <<>>
       THEN caller' = [caller EXCEPT !.pc = "w_get"]
       ELSE AlertasSiguiente(caller.pend, caller.vista, caller.estados)
    /\ ret' = NoCall
    /\ UNCHANGED <<llamada, modelo_cargado, orden, sensores, threads, ticks, producidas, al_detener>>

\* faulty variant of AlertasGet: every reading taken is shown as an alert
AlertasGetTodoEsAlerta ==
    LET q == sensores[caller.sid].data_queue
    IN  /\ caller.pc = "w_get"
        /\ IF q = <<>>
           THEN /\ AlertasSiguiente(caller.pend, caller.vista, caller.estados)
                /\ UNCHANGED sensores
           ELSE /\ sensores' = [sensores EXCEPT ![caller.sid].data_queue = Tail(q)]
                /\ AlertasSiguiente(caller.pend, Append(caller.vista, Head(q)),
                                    Append(caller.estados, Head(q)))
        /\ ret' = NoCall
        /\ UNCHANGED <<llamada, modelo_cargado, orden, threads, ticks, producidas, al_detener>>

\* lines 75-90: lectura = sensor.data_queue.get_nowait() takes the head of
\* the queue, or raises queue.Empty, which is passed over; the reading is
\* shown as an alert when its alerta_total is set
AlertasGet ==
    LET q == sensores[caller.sid].data_queue
    IN  /\ caller.pc = "w_get"
        /\ IF q = <<>>
           THEN /\ AlertasSiguiente(caller.pend, caller.vista, caller.estados)
                /\ UNCHANGED sensores
           ELSE /\ sensores' = [sensores EXCEPT ![caller.sid].data_queue = Tail(q)]
                /\ AlertasSiguiente(caller.pend, Append(caller.vista, Head(q)),
                                    IF Head(q).alerta_total
                                    THEN Append(caller.estados, Head(q))
                                    ELSE caller.estados)
        /\ ret' = NoCall
        /\ UNCHANGED <<llamada, modelo_cargado, orden, threads, ticks, producidas, al_detener>>

\* lines 92-102: the state of the system is printed every 10 s (a read of the
\* sensors that changes nothing), then time.sleep(0.1); the round has taken
\* one poll interval or more
AlertasSleep ==
    /\ caller.pc = "w_sleep"
    /\ \E d \in Rondas :
         caller' = [caller EXCEPT !.pc = "w_while", !.cantidad = Max(0, @ - d)]
    /\ ret' = NoCall
    /\ UNCHANGED <<llamada, modelo_cargado, orden, sensores, threads, ticks, producidas, al_detener>>

\* a direct call of ModeloAnomalias.verificar_estado_completo
NoLlamada ==
    [ temp |-> 0, volt |-> 0, efic |-> 0, efic_ant |-> None, pred |-> "none", res |-> None ]

Verificar ==
    /\ \E temp \in TempVals, volt \in VoltVals, efic \in EficVals,
          efic_ant \in {None} \cup {Some(e) : e \in EficVals}, pred \in Predicciones :
         llamada' = [ temp |-> temp, volt |-> volt, efic |-> efic, efic_ant |-> efic_ant,
                      pred |-> pred,
                      res |-> Some(verificar_estado_completo(modelo_cargado, pred, temp,
                                                             volt, efic, efic_ant)) ]
    /\ UNCHANGED <<modelo_cargado, orden, sensores, threads, caller, ret, ticks,
                   producidas, al_detener>>

(*************************** specifications ********************************)
\* ModeloAnomalias() has loaded its pickles or has failed to; GestorSensores()
\* has an empty registry
InitEval ==
    /\ modelo_cargado \in BOOLEAN
    /\ orden = <<>>
    /\ sensores = <<>>
    /\ threads = <<>>
    /\ caller = Idle
    /\ ret = NoCall
    /\ ticks = 0
    /\ llamada = NoLlamada
    /\ producidas = [s \in SensorIds \cup Flota |-> <<>>]
    /\ al_detener = [s \in SensorIds \cup Flota |-> None]

\* the same, with the pickles loaded: a model that is not loaded answers as a
\* loaded one that predicts "normal"
Init ==
    /\ InitEval
    /\ modelo_cargado = TRUE

\* the calling context registers and starts sensors
Arranque ==
    \/ \E s \in SensorIds, b \in BufferSizes : agregar_sensor(s, b)
    \/ \E s \in SensorIds : iniciar_sensor(s)

\* the calling context stops sensors
Paro ==
    \/ \E s \in SensorIds : detener_sensor(s)
    \/ JoinExit
    \/ JoinTimeout

\* the production loops run
Loops == \E t \in 1..Len(threads) : loop_sensor(t)

\* obtener_estado runs, for whichever operation has called it
PasosEstado ==
    \/ Estado208a
    \/ Estado208l
    \/ Estado213
    \/ Estado214
    \/ Estado217
    \/ Estado218
    \/ Estado219

\* the calling context takes a snapshot
Estado ==
    \/ obtener_estado_general
    \/ PasosEstado

\* the calling context asks for the fleet's totals, by polling or by push
Sistema ==
    \/ estado_sistema
    \/ websocket_endpoint
    \/ PasosEstado

\* the calling context queries the history
Lecturas ==
    \/ \E s \in SensorIds, n \in Cantidades : obtener_lecturas(s, n)
    \/ LecturasReturn

\* sensors are registered, started and stopped while their loops run
Next == Arranque \/ Paro \/ Loops

Spec == Init /\ [][Next]_vars

\* snapshots are taken while the loops run
NextEstado == Arranque \/ Loops \/ Estado

SpecEstado == Init /\ [][NextEstado]_vars

\* the history is queried while the loops run
NextLecturas == Arranque \/ Loops \/ Lecturas

SpecLecturas == Init /\ [][NextLecturas]_vars

\* the fleet's totals are asked for while the loops run
NextSistema == Arranque \/ Loops \/ Sistema

SpecSistema == Init /\ [][NextSistema]_vars

\* a fleet of two sensors is registered, started and stopped, one sensor at a
\* time or all at once, and calls are made with an id that is not registered
Registro ==
    \/ \E s \in Flota, b \in BufferSizes : agregar_sensor(s, b)
    \/ \E s \in Flota \cup {Desconocido} : iniciar_sensor(s)
    \/ \E s \in Flota \cup {Desconocido} : detener_sensor(s)
    \/ JoinExit
    \/ JoinTimeout
    \/ \E n \in Cantidades : obtener_lecturas(Desconocido, n)

TodosLosSensores ==
    \/ iniciar_todos
    \/ detener_todos
    \/ TodosPaso

NextFlota == Registro \/ TodosLosSensores \/ Loops

\* the fleet is followed from a moment at which the clock leaves room for one
\* more tick
InitFlota ==
    /\ modelo_cargado = TRUE
    /\ orden = <<>>
    /\ sensores = <<>>
    /\ threads = <<>>
    /\ caller = Idle
    /\ ret = NoCall
    /\ ticks = MaxTicks - 1
    /\ llamada = NoLlamada
    /\ producidas = [s \in SensorIds \cup Flota |-> <<>>]
    /\ al_detener = [s \in SensorIds \cup Flota |-> None]

SpecFlota == InitFlota /\ [][NextFlota]_vars

\* the production loops run, reading synthesis followed statement by statement
LoopsSintesis == \E t \in 1..Len(threads) : loop_sensor_sintesis(t)

\* a sensor is registered, started and stopped while its loops synthesize
\* readings and move the drift accumulators
NextSintesis == Arranque \/ Paro \/ LoopsSintesis

\* the clock leaves room for two calls of _generar_lectura_sensor
InitSintesis ==
    /\ modelo_cargado = TRUE
    /\ orden = <<>>
    /\ sensores = <<>>
    /\ threads = <<>>
    /\ caller = Idle
    /\ ret = NoCall
    /\ ticks = MaxTicks - 2
    /\ llamada = NoLlamada
    /\ producidas = [s \in SensorIds \cup Flota |-> <<>>]
    /\ al_detener = [s \in SensorIds \cup Flota |-> None]

SpecSintesis == InitSintesis /\ [][NextSintesis]_vars

\* the steps of mostrar_alertas_tiempo_real once it is called
PasosAlertas ==
    \/ AlertasWhile
    \/ AlertasEmpty
    \/ AlertasGet
    \/ AlertasSleep

\* the calling context watches the alerts
Alertas ==
    \/ \E d \in Duraciones : mostrar_alertas_tiempo_real(d)
    \/ PasosAlertas

\* the alerts of one sensor are watched while its loop runs
NextVigilancia == Arranque \/ Loops \/ Alertas

SpecVigilancia == Init /\ [][NextVigilancia]_vars

\* the same, the watch never left waiting for ever at a step it can take: it
\* runs in the calling context, which nothing else occupies during the call.
\* Nothing is assumed of the loops
SpecVigilanciaJusta == SpecVigilancia /\ WF_vars(PasosAlertas)

\* every operation that reads a sensor, and the watch, while its loop runs
NextCanal == Arranque \/ Loops \/ Estado \/ Lecturas \/ Alertas

SpecCanal == Init /\ [][NextCanal]_vars

\* one lifetime of a loop: the sensor is registered, started once and stopped,
\* reading synthesis followed statement by statement
NextBucle == NextSintesis /\ Len(threads') <= 1

SpecBucle == Init /\ [][NextBucle]_vars

\* the same under a fair scheduler: a loop that can take a step is not left
\* waiting for ever (the interpreter switches threads at fixed intervals and
\* time.sleep returns)
SpecBucleJusta ==
    SpecBucle /\ \A t \in 1..MaxThreads :
                    WF_vars(t <= Len(threads) /\ loop_sensor_sintesis(t))

\* the calling context exports the history
Historicos ==
    \/ \E s \in SensorIds : obtener_datos_historicos(s)
    \/ HistoricosIter
    \/ HistoricosFila

\* the history is exported while the loops run
NextHistoricos == Arranque \/ Loops \/ Historicos

SpecHistoricos == Init /\ [][NextHistoricos]_vars

\* the evaluator is called on its own
SpecEval == InitEval /\ [][Verificar]_vars

(******************************* claims ************************************)
\* the sensor a call of the calling context was about, when it is registered
RetDe(op) == ret.op = op /\ ret.sid \in Registered

\* C1 (as claimed): every per-sensor view that obtener_estado_general returns
\* has total_anomalias <= total_lecturas, also when the sensor's loop runs
\* between the loads of obtener_estado.
C1_VistaAnomaliasAcotadas ==
    ret.op = "obtener_estado_general" =>
        \A i \in 1..Len(ret.val) :
            ret.val[i].total_anomalias <= ret.val[i].total_lecturas

C3_UnaLecturaTrasDetener ==
    \A s \in SensorIds :
        ~IsNone(al_detener[s]) => Len(producidas[s]) <= Val(al_detener[s]) + 1

\* C4: iniciar on a sensor whose flag is set returns False, launches no loop
\* and changes nothing; on a sensor whose flag is clear it sets the flag,
\* launches exactly one loop, at its start, and returns True.
C4_IniciarTransicion ==
    [][ (ret'.op = "iniciar" /\ ret'.sid \in Registered) =>
            IF sensores[ret'.sid].running
            THEN /\ ret'.val = FALSE
                 /\ sensores' = sensores
                 /\ threads' = threads
                 /\ UNCHANGED <<modelo_cargado, orden, ticks, producidas>>
            ELSE /\ ret'.val = TRUE
                 /\ sensores' = [sensores EXCEPT ![ret'.sid].running = TRUE,
                                                 ![ret'.sid].thread = Len(threads) + 1]
                 /\ Len(threads') = Len(threads) + 1
                 /\ SubSeq(threads', 1, Len(threads)) = threads
                 /\ threads'[Len(threads')].sensor = ret'.sid
                 /\ threads'[Len(threads')].pc = "while"
                 /\ UNCHANGED <<modelo_cargado, orden, ticks, producidas>> ]_vars

\* C4 (witness): iniciar has just returned False on a sensor that is running
\* with its loop alive.
C4_IniciarSobreActivo ==
    /\ RetDe("iniciar")
    /\ ~ret.val
    /\ sensores[ret.sid].running
    /\ IsAlive(sensores[ret.sid].thread)

\* C5: detener on a sensor whose flag is clear (never started, or stopped)
\* returns False and leaves the flag, the thread handle, the buffer, the queue
\* and the counters as they were.
C5_DetenerSinEfecto ==
    [][ (caller.pc = "idle" /\ ret'.op = "detener" /\ ret'.sid \in Registered
            /\ ~sensores[ret'.sid].running) =>
            /\ ret'.val = FALSE
            /\ sensores' = sensores
            /\ threads' = threads
            /\ UNCHANGED <<modelo_cargado, orden, ticks, producidas>> ]_vars

\* C5 (witness): detener has just returned False on a sensor that was never
\* started.
C5_DetenerNuncaIniciado ==
    /\ RetDe("detener")
    /\ ~ret.val
    /\ sensores[ret.sid].thread = 0

\* C6: the buffer never holds more than buffer_size readings, and it is the
\* last buffer_size readings appended, in the order they were appended (after
\* buffer_size + 1 appends its first entry is the second reading appended).
C6_BufferAcotadoFIFO ==
    \A s \in Registered :
        LET buf == sensores[s].data_buffer
            n == Len(producidas[s])
            cap == sensores[s].buffer_size
        IN  /\ Len(buf) <= cap
            /\ buf = SubSeq(producidas[s], n - Min(n, cap) + 1, n)

\* C6 (witness): a buffer of capacity two or more after capacity + 1 appends:
\* the first reading has been evicted.
C6_Desalojo ==
    \E s \in Registered :
        /\ sensores[s].buffer_size >= 2
        /\ Len(producidas[s]) = sensores[s].buffer_size + 1
        /\ Len(sensores[s].data_buffer) = sensores[s].buffer_size
        /\ sensores[s].data_buffer[1] = producidas[s][2]
        /\ sensores[s].data_buffer[1] # producidas[s][1]

\* C7: in every result of verificar_estado_completo, alerta_total is true
\* exactly when fuente_alerta has no "Normal", and fuente_alerta is not empty.
C7_AlertaSiiSinNormal ==
    ~IsNone(llamada.res) =>
        LET r == Val(llamada.res)
        IN  /\ Len(r.fuente_alerta) > 0
            /\ r.alerta_total <=>
                   (\A i \in 1..Len(r.fuente_alerta) : r.fuente_alerta[i] # "Normal")

\* C7 (witness): one result with an alert from two sources.
C7_AlertaDeDosFuentes ==
    /\ ~IsNone(llamada.res)
    /\ Val(llamada.res).alerta_total
    /\ Len(Val(llamada.res).fuente_alerta) = 2

\* C8 (as claimed): for every reading a sensor produces, the flag
\* caida_eficiencia is set exactly when the sensor produced a reading before
\* it and eficiencia_pct fell by more than 2.0 from that reading.
C8_CaidaContraAnterior ==
    \A s \in SensorIds :
        \A i \in 1..Len(producidas[s]) :
            producidas[s][i].alertas_individuales.caida_eficiencia <=>
                (i > 1 /\ (producidas[s][i].eficiencia_pct
                             - producidas[s][i - 1].eficiencia_pct) < -2 * Escala)

\* C9 (as claimed): obtener_lecturas(sensor_id, n) returns at most n readings,
\* and they are the last entries of the buffer, in its order.
C9_AlMenosRecientes ==
    RetDe("obtener_lecturas") =>
        LET items == ret.val.items
            buf == sensores[ret.sid].data_buffer
        IN  /\ Len(items) <= ret.val.cantidad
            /\ Len(items) <= Len(buf)
            /\ items = SubSeq(buf, Len(buf) - Len(items) + 1, Len(buf))

\* C10: verificar_estado_completo returns alerta_total as the disjunction of
\* the four signals, fuente_alerta as the tags of the active signals in the
\* order model, voltage, temperature, efficiency ("Normal" alone when none is
\* active), and each flag of alertas_individuales as its own signal.
C10_CuatroSenales ==
    ~IsNone(llamada.res) =>
        LET r == Val(llamada.res)
            activa == [ Modelo_ML |-> modelo_cargado /\ llamada.pred = "anomalia",
                        Bajo_Voltaje |-> llamada.volt < 210 * Escala,
                        Alta_Temperatura |-> llamada.temp > 80 * Escala,
                        Caida_Eficiencia |->
                            /\ ~IsNone(llamada.efic_ant)
                            /\ llamada.efic - Val(llamada.efic_ant) < -2 * Escala ]
            Activa(tag) == activa[tag]
            tags == SelectSeq(<<"Modelo_ML", "Bajo_Voltaje", "Alta_Temperatura",
                                "Caida_Eficiencia">>, Activa)
        IN  /\ r.alerta_total = (\E tag \in DOMAIN activa : activa[tag])
            /\ r.fuente_alerta = IF tags = <<>> THEN <<"Normal">> ELSE tags
            /\ r.alertas_individuales =
                   [ modelo_ml |-> activa.Modelo_ML,
                     bajo_voltaje |-> activa.Bajo_Voltaje,
                     alta_temperatura |-> activa.Alta_Temperatura,
                     caida_eficiencia |-> activa.Caida_Eficiencia ]

\* C10 (witness): a call in which the four signals are active.
C10_TodasActivas ==
    /\ ~IsNone(llamada.res)
    /\ Len(Val(llamada.res).fuente_alerta) = 4

\* C11: when the model is not loaded, or its transform or prediction raises,
\* verificar_estado_completo returns the result of the three rules alone with
\* the model flag false; with volt 205, temp 75 and no previous efficiency
\* that is an alert from "Bajo_Voltaje" only, with delta_efic None.
C11_SoloReglas ==
    (~IsNone(llamada.res) /\ (~modelo_cargado \/ llamada.pred = "error")) =>
        LET r == Val(llamada.res)
            v == llamada.volt < 210 * Escala
            t == llamada.temp > 80 * Escala
            e == /\ ~IsNone(llamada.efic_ant)
                 /\ llamada.efic - Val(llamada.efic_ant) < -2 * Escala
            reglas == (IF v THEN <<"Bajo_Voltaje">> ELSE <<>>)
                      \o (IF t THEN <<"Alta_Temperatura">> ELSE <<>>)
                      \o (IF e THEN <<"Caida_Eficiencia">> ELSE <<>>)
        IN  /\ ~r.alertas_individuales.modelo_ml
            /\ r.alerta_total = (v \/ t \/ e)
            /\ r.fuente_alerta = IF reglas = <<>> THEN <<"Normal">> ELSE reglas
            /\ (llamada.volt = 205 * Escala /\ llamada.temp = 75 * Escala
                    /\ IsNone(llamada.efic_ant)) =>
                   /\ r.alerta_total
                   /\ r.fuente_alerta = <<"Bajo_Voltaje">>
                   /\ IsNone(r.delta_efic)

\* C11 (witness): the model is not loaded, the prediction would have been an
\* anomaly, and the call is the one with volt 205 and temp 75.
C11_SinModeloBajoVoltaje ==
    /\ ~IsNone(llamada.res)
    /\ ~modelo_cargado
    /\ llamada.pred = "anomalia"
    /\ llamada.volt = 205 * Escala
    /\ llamada.temp = 75 * Escala
    /\ IsNone(llamada.efic_ant)
    /\ Val(llamada.res).fuente_alerta = <<"Bajo_Voltaje">>

\* C12: delta_efic is efic - efic_ant whenever efic_ant is given, a previous
\* efficiency of 0 included and whether or not the drop rule is active, and
\* it is None exactly when efic_ant is None.
C12_DeltaEfic ==
    ~IsNone(llamada.res) =>
        LET r == Val(llamada.res)
        IN  /\ IsNone(r.delta_efic) <=> IsNone(llamada.efic_ant)
            /\ ~IsNone(llamada.efic_ant) =>
                   r.delta_efic = Some(llamada.efic - Val(llamada.efic_ant))

\* C12 (witness): a previous efficiency of 0, the drop rule not active, and a
\* delta that is present.
C12_DeltaConAnteriorCero ==
    /\ ~IsNone(llamada.res)
    /\ llamada.efic_ant = Some(0)
    /\ llamada.efic > 0
    /\ ~Val(llamada.res).alertas_individuales.caida_eficiencia
    /\ Val(llamada.res).delta_efic = Some(llamada.efic)

\* C13: whatever the other inputs and the model, the flag bajo_voltaje is true
\* exactly when volt < 210 (true at 209.9, false at 210.0) and the flag
\* alta_temperatura exactly when temp > 80 (false at 80.0, true at 80.1).
C13_UmbralesEstrictos ==
    ~IsNone(llamada.res) =>
        LET ai == Val(llamada.res).alertas_individuales
        IN  /\ ai.bajo_voltaje <=> llamada.volt < 210 * Escala
            /\ ai.alta_temperatura <=> llamada.temp > 80 * Escala
            /\ llamada.volt = 20990 => ai.bajo_voltaje
            /\ llamada.volt = 21000 => ~ai.bajo_voltaje
            /\ llamada.temp = 8000 => ~ai.alta_temperatura
            /\ llamada.temp = 8010 => ai.alta_temperatura

\* C13 (witness): a call on both thresholds, volt 210.0 and temp 80.0, with
\* the model reporting an anomaly: neither rule is active.
C13_EnLosUmbrales ==
    /\ ~IsNone(llamada.res)
    /\ llamada.volt = 21000
    /\ llamada.temp = 8000
    /\ Val(llamada.res).alertas_individuales.modelo_ml
    /\ ~Val(llamada.res).alertas_individuales.bajo_voltaje
    /\ ~Val(llamada.res).alertas_individuales.alta_temperatura

\* C14 (as claimed): in every reachable state, the states in the middle of a
\* tick included, each sensor's counter total_anomalias is at most its counter
\* total_lecturas.
C14_AnomaliasAcotadas ==
    \A s \in Registered : sensores[s].total_anomalias <= sensores[s].total_lecturas

\* C15 (as claimed): in every view that obtener_estado_general returns,
\* tasa_anomalias_pct is total_anomalias / max(1, total_lecturas) * 100 of the
\* counters reported in that same view, is 0 for a sensor with no readings,
\* and lies between 0 and 100, also when the loop runs during the snapshot.
C15_TasaDeLaMismaVista ==
    ret.op = "obtener_estado_general" =>
        \A i \in 1..Len(ret.val) :
            LET v == ret.val[i]
            IN  /\ v.tasa_anomalias_pct =
                       TasaPct(v.total_anomalias, Max(1, v.total_lecturas))
                /\ v.total_lecturas = 0 => v.tasa_anomalias_pct = 0
                /\ v.tasa_anomalias_pct >= 0
                /\ v.tasa_anomalias_pct <= 100 * Escala

\* C16: whenever estado_sistema or websocket_endpoint computes the global
\* rate, no division by zero is raised, and when the total of the readings
\* reported is 0 (empty registry, or no sensor has a reading) the rate is 0.
C16_TasaGlobalSinLecturas ==
    ret.op \in {"estado_sistema", "websocket_endpoint"} =>
        /\ ~ret.val.tasa_global_anomalias.error
        /\ ret.val.total_lecturas = 0 => ret.val.tasa_global_anomalias = Cero

\* C16 (witness): the push path has answered for a registered, running sensor
\* that has no reading yet: total 0, rate 0.
C16_FlotaSinLecturas ==
    /\ ret.op = "websocket_endpoint"
    /\ Len(ret.val.sensores) >= 1
    /\ ret.val.sensores[1].activo
    /\ ret.val.total_lecturas = 0
    /\ ret.val.tasa_global_anomalias = Cero

\* C17: agregar_sensor with an id already registered returns False and leaves
\* the registry and every sensor (flag, thread, buffer, queue, counters,
\* capacity) as they were; with a new id it returns True and adds exactly one
\* sensor, stopped, with an empty buffer and queue and counters at zero.
C17_AgregarSensor ==
    [][ ret'.op = "agregar_sensor" =>
            LET s == ret'.sid
            IN  IF s \in Registered
                THEN /\ ret'.val = FALSE
                     /\ UNCHANGED <<orden, sensores, threads, ticks, producidas>>
                ELSE /\ ret'.val = TRUE
                     /\ orden' = Append(orden, s)
                     /\ DOMAIN sensores' = DOMAIN sensores \cup {s}
                     /\ \A x \in DOMAIN sensores : sensores'[x] = sensores[x]
                     /\ ~sensores'[s].running
                     /\ sensores'[s].thread = 0
                     /\ sensores'[s].data_buffer = <<>>
                     /\ sensores'[s].data_queue = <<>>
                     /\ sensores'[s].total_lecturas = 0
                     /\ sensores'[s].total_anomalias = 0
                     /\ IsNone(sensores'[s].ultima_lectura)
                     /\ sensores'[s].buffer_size \in BufferSizes
                     /\ UNCHANGED <<threads, ticks, producidas>> ]_vars

\* C17 (witness): agregar_sensor has just returned False for a sensor that is
\* running and has a reading in its buffer and in its counters.
C17_DuplicadoConDatos ==
    /\ RetDe("agregar_sensor")
    /\ ~ret.val
    /\ sensores[ret.sid].running
    /\ Len(sensores[ret.sid].data_buffer) = 1
    /\ sensores[ret.sid].total_lecturas = 1

\* C18: iniciar_sensor, detener_sensor and obtener_lecturas with an id that is
\* not registered return False, False and an empty list, and leave the
\* registry, the sensors and their loops as they were.
C18_IdDesconocido ==
    [][ (ret'.op \in {"iniciar", "detener", "obtener_lecturas"}
            /\ ret'.sid \notin Registered) =>
            /\ ret'.op \in {"iniciar", "detener"} => ret'.val = FALSE
            /\ ret'.op = "obtener_lecturas" =>
                   (ret'.val.tipo = "list" /\ ret'.val.items = <<>>)
            /\ UNCHANGED <<orden, sensores, threads, ticks, producidas>> ]_vars

\* C18 (witness): the history of an id that is not registered has just been
\* asked for, while a registered sensor is running with a reading buffered.
C18_ConsultaDesconocida ==
    /\ ret.op = "obtener_lecturas"
    /\ ret.sid = Desconocido
    /\ ret.val.items = <<>>
    /\ \E s \in Registered : sensores[s].running /\ sensores[s].data_buffer # <<>>

PcsEstado == {"e208a", "e208l", "e213", "e214", "e217", "e218", "e219"}

\* C20: no step of obtener_estado_general changes the registry, a sensor's
\* flag, thread, buffer, queue or counters, or a loop; and inside
\* obtener_estado the next step can always be taken, whatever the loops do.
C20_SoloLectura ==
    /\ [](caller.pc \in PcsEstado => ENABLED PasosEstado)
    /\ [][ ((caller.pc \in PcsEstado /\ caller' # caller)
             \/ (caller.pc = "idle" /\ caller'.pc \in PcsEstado)
             \/ ret'.op = "obtener_estado_general") =>
            UNCHANGED <<modelo_cargado, orden, sensores, threads, ticks, producidas>> ]_vars

\* C20 (witness): obtener_estado_general has returned the view of a sensor
\* with a reading while that sensor's loop is in the middle of a tick.
C20_VistaDuranteTick ==
    /\ ret.op = "obtener_estado_general"
    /\ Len(ret.val) = 1
    /\ ret.val[1].total_lecturas >= 1
    /\ \E t \in 1..Len(threads) : threads[t].pc \notin {"while", "dead"}

\* the loops of sensor s that are inside a tick: they have passed
\* `while self.running` and have not come back to it
EnTick(s) ==
    {t \in 1..Len(threads) : threads[t].sensor = s /\ threads[t].pc \notin {"while", "dead"}}

\* C21 (as claimed): after any sequence of iniciar and detener on a sensor, at
\* most one loop of that sensor is producing at any time.
C21_UnSoloLoop ==
    \A s \in Registered : Cardinality(EnTick(s)) <= 1

\* the positions of a loop after its call of _generar_lectura_sensor has ended
TrasSintesis ==
    {"except", "append", "put", "lect_load", "lect_store", "ultima", "anom_load", "anom_store"}

\* C22 (as claimed): on every tick, whichever branch is drawn, the call of
\* _generar_lectura_sensor ends with a reading that carries a temperature, a
\* voltage and an efficiency. The voltage-fault branch ends in the except
\* clause with no reading at all.
C22_LecturaConTresValores ==
    \A t \in 1..Len(threads) :
        threads[t].pc \in TrasSintesis =>
            /\ ~IsNone(threads[t].lectura)
            /\ {"temperatura_c", "voltaje_v", "eficiencia_pct"}
                   \subseteq DOMAIN Val(threads[t].lectura)

\* C23 (as claimed): for every two adjacent readings of a sensor's buffer, the
\* later one's delta_efic is its eficiencia_pct minus the earlier one's,
\* however the ticks, snapshots and start/stop calls interleave.
C23_DeltaDeAdyacentes ==
    \A s \in Registered :
        LET buf == sensores[s].data_buffer
        IN  \A i \in 1..(Len(buf) - 1) :
                buf[i + 1].delta_efic =
                    Some(buf[i + 1].eficiencia_pct - buf[i].eficiencia_pct)

\* C24 (as claimed): within one sensor the readings are put on the queue in
\* the order in which they were appended to the buffer: the queue, which
\* nothing drains here, is the start of the sequence of readings appended, and
\* the buffer is its last entries in the same order.
C24_ColaEnOrdenDeGeneracion ==
    \A s \in Registered :
        LET q == sensores[s].data_queue
            p == producidas[s]
            buf == sensores[s].data_buffer
        IN  /\ Len(q) <= Len(p)
            /\ q = SubSeq(p, 1, Len(q))
            /\ buf = SubSeq(p, Len(p) - Len(buf) + 1, Len(p))

\* the readings of a sequence whose alerta_total is set
ConAlerta(lecturas) == SelectSeq(lecturas, LAMBDA l : l.alerta_total)

\* C25 (as claimed): whenever no tick of a sensor is in progress,
\* total_lecturas is the number of readings ever appended to its buffer and
\* ever put on its queue, total_anomalias is the number of those with
\* alerta_total set, and the buffer holds min(total_lecturas, buffer_size)
\* readings.
C25_ContadoresEnReposo ==
    \A s \in Registered :
        EnTick(s) = {} =>
            /\ sensores[s].total_lecturas = Len(producidas[s])
            /\ sensores[s].total_lecturas = Len(sensores[s].data_queue)
            /\ sensores[s].total_anomalias = Len(ConAlerta(producidas[s]))
            /\ Len(sensores[s].data_buffer) =
                   Min(sensores[s].total_lecturas, sensores[s].buffer_size)

\* the positions of a loop inside the try block up to the end of
\* _procesar_lectura, and in the except clause
PcsSintesis == {"tick", "d1", "d2", "d3", "d4", "d5", "d6", "retorno", "except"}

\* what a tick writes of its sensor once its reading is annotated
Nucleo(sn) ==
    <<sn.data_buffer, sn.data_queue, sn.total_lecturas, sn.total_anomalias, sn.ultima_lectura>>

\* loop t holds the locals of a synthesis that will not fail, stamped ts
Sano(t, ts) ==
    /\ t <= Len(threads)
    /\ threads[t].pc \in {"d1", "d2", "d3", "d4", "d5", "d6", "retorno"}
    /\ ~IsNone(Val(threads[t].lectura).temperatura)
    /\ Val(threads[t].lectura).timestamp = ts

\* C26: a loop ends only at its while, on finding the running flag clear; a
\* loop in synthesis, annotation or the except clause writes nothing of the
\* buffer, the queue and the counters, and a failed tick goes through the
\* except clause back to the while. Under a fair scheduler a loop in the
\* except clause reaches its next tick (or ends, the flag found clear), and
\* a tick whose synthesis does not fail appends its reading.
C26_BucleSobrevive ==
    /\ [][\A t \in 1..Len(threads) :
             /\ (threads[t].pc # "dead" /\ threads'[t].pc = "dead") =>
                    (threads[t].pc = "while" /\ ~sensores[threads[t].sensor].running)
             /\ (threads[t].pc \in PcsSintesis /\ threads'[t] # threads[t]) =>
                    /\ Nucleo(sensores'[threads[t].sensor]) = Nucleo(sensores[threads[t].sensor])
                    /\ producidas' = producidas
             /\ (threads[t].pc = "except" /\ threads'[t] # threads[t]) =>
                    threads'[t].pc = "while"]_vars
    /\ \A t \in 1..MaxThreads :
          (t <= Len(threads) /\ threads[t].pc = "except")
              ~> (t <= Len(threads) /\ threads[t].pc \in {"tick", "dead"})
    /\ \A t \in 1..MaxThreads, ts \in 1..MaxTicks :
          Sano(t, ts) ~> (\E s \in SensorIds : \E i \in 1..Len(producidas[s]) :
                             producidas[s][i].timestamp = ts)

\* C26 (witness): a loop whose first tick failed has gone on: the only
\* reading it has appended comes from a later tick.
C26_LecturaTrasFallo ==
    \E t \in 1..Len(threads) :
        /\ threads[t].pc = "put"
        /\ Len(producidas[threads[t].sensor]) = 1
        /\ producidas[threads[t].sensor][1].timestamp > 1

PcsAlertas == {"w_while", "w_empty", "w_get", "w_sleep"}

\* C28: mostrar_alertas_tiempo_real can always take its next step, on an empty
\* queue as on any other; the alerts it has shown are, in order, the readings
\* it has taken whose alerta_total is set; and under a fair scheduler every
\* call returns, whatever the loops produce meanwhile.
C28_VigilanciaTermina ==
    /\ [](caller.pc \in PcsAlertas => ENABLED PasosAlertas)
    /\ [](caller.pc \in PcsAlertas => caller.estados = ConAlerta(caller.vista))
    /\ [](ret.op = "mostrar_alertas_tiempo_real" =>
             ret.val.alertas = ConAlerta(ret.val.drenadas))
    /\ (caller.pc \in PcsAlertas) ~> (ret.op = "mostrar_alertas_tiempo_real")

\* C28 (witness): a watch has returned after taking two readings, one of them
\* shown as an alert and the other not.
C28_UnaAlertaDeDos ==
    /\ ret.op = "mostrar_alertas_tiempo_real"
    /\ Len(ret.val.drenadas) = 2
    /\ Len(ret.val.alertas) = 1

MismoValor(a, b) == a.error = b.error /\ a.num * b.den = b.num * a.den

\* the operation that answers by the other path
OtraVia(via) == IF via = "estado_sistema" THEN "websocket_endpoint" ELSE "estado_sistema"

\* C30 (as claimed): what one of estado_sistema and websocket_endpoint answers
\* is what the other answers from the same views of the sensors: the same
\* total_lecturas, the same total_anomalias and the same value of
\* tasa_global_anomalias.
C30_MismaRespuestaPorAmbasVias ==
    ret.op \in {"estado_sistema", "websocket_endpoint"} =>
        LET otra == Respuesta(OtraVia(ret.op), ret.val.sensores)
        IN  /\ ret.val.total_lecturas = otra.total_lecturas
            /\ ret.val.total_anomalias = otra.total_anomalias
            /\ MismoValor(ret.val.tasa_global_anomalias, otra.tasa_global_anomalias)

\* C31 (as claimed): every key obtener_datos_historicos reads is in every
\* reading of the buffer: the call ends without an exception, and its
\* DataFrame has one row per reading of the buffer, in the buffer's order.
C31_UnaFilaPorLectura ==
    RetDe("obtener_datos_historicos") =>
        /\ ret.val.error = ""
        /\ LET buf == sensores[ret.sid].data_buffer
           IN  /\ Len(ret.val.filas) = Len(buf)
               /\ \A i \in 1..Len(buf) :
                      ret.val.filas[i].timestamp = buf[i].timestamp

====
